---- MODULE Spec2Model ----
(***************************************************************************)
(* Deployments Explorer (src/app.js): the markdown parser and the page     *)
(* state that is rebuilt from it.                                          *)
(*                                                                         *)
(* A text is a sequence of one-character strings, so that the regular      *)
(* expressions of the source are computed character by character.          *)
(* Sequences are 1-based: the source's line index k is k + 1 here.         *)
(***************************************************************************)
EXTENDS Integers, Sequences, FiniteSets, TLC

\* ------------------------------------------------------------------------
\* Bounds
\* ------------------------------------------------------------------------
MaxLines == 4
MaxPending == 2

\* ------------------------------------------------------------------------
\* Characters and regular-expression helpers
\* ------------------------------------------------------------------------
\* the characters of the model's alphabet matched by \s
WS == {" ", "\t", "\r"}

\* the characters matched by . (everything but line terminators)
Dot(c) == c \notin {"\n", "\r"}

\* the /i flag and String.prototype.toLowerCase on the letters of the model
Lower(c) ==
  CASE c = "A" -> "a" [] c = "B" -> "b" [] c = "D" -> "d" [] c = "E" -> "e"
    [] c = "K" -> "k" [] c = "N" -> "n" [] c = "O" -> "o" [] c = "R" -> "r"
    [] c = "S" -> "s" [] c = "T" -> "t" [] c = "U" -> "u" [] c = "V" -> "v"
    [] c = "W" -> "w" [] OTHER -> c

SetMin(S) == CHOOSE x \in S : \A y \in S : x <= y
SetMax(S) == CHOOSE x \in S : \A y \in S : x >= y

AllWs(s, a, b) == \A k \in a..b : s[k] \in WS

\* String.prototype.trim
Trim(s) ==
  LET idx == {k \in 1..Len(s) : s[k] \notin WS}
  IN  IF idx = {} THEN <<>> ELSE SubSeq(s, SetMin(idx), SetMax(idx))

\* String.prototype.split on a one-character separator
SplitOn(s, c) ==
  LET pos == {k \in 1..Len(s) : s[k] = c}
      n   == Cardinality(pos)
      nth(k) == CHOOSE p \in pos : Cardinality({q \in pos : q < p}) = k - 1
  IN  [k \in 1..(n + 1) |->
         SubSeq(s, IF k = 1 THEN 1 ELSE nth(k - 1) + 1,
                   IF k = n + 1 THEN Len(s) ELSE nth(k) - 1)]

\* md.split(/\r?\n/): a \r directly before the \n belongs to the separator
SplitLines(md) ==
  LET segs == SplitOn(md, "\n")
      n    == Len(segs)
  IN  [k \in 1..n |->
         IF k < n /\ Len(segs[k]) > 0 /\ segs[k][Len(segs[k])] = "\r"
         THEN SubSeq(segs[k], 1, Len(segs[k]) - 1)
         ELSE segs[k]]

NoMatch == [ok |-> FALSE, g |-> <<>>]

\* /^#{p}\s+(.+?)\s*$/ : \s+ is greedy, (.+?) is lazy; g is the capture
HeadingRe(line, p) ==
  LET L == Len(line)
      GroupOk(n, m) == /\ \A k \in (p + n + 1)..(p + n + m) : Dot(line[k])
                       /\ AllWs(line, p + n + m + 1, L)
      ms(n) == {m \in 1..(L - p - n) : GroupOk(n, m)}
      ns == {n \in 1..(L - p) : AllWs(line, p + 1, p + n) /\ ms(n) # {}}
  IN  IF L < p THEN NoMatch
      ELSE IF \E k \in 1..p : line[k] # "#" THEN NoMatch
      ELSE IF ns = {} THEN NoMatch
      ELSE LET n == SetMax(ns)
               m == SetMin(ms(n))
           IN  [ok |-> TRUE, g |-> SubSeq(line, p + n + 1, p + n + m)]

\* line.match(/^###\s+(.+?)\s*$/)
H3Re(line) == HeadingRe(line, 3)

\* lines[k].match(/^##\s+(.+?)\s*$/)
H2Re(line) == HeadingRe(line, 2)

\* /^\s*$/.test(line)
IsBlank(line) == AllWs(line, 1, Len(line))

\* /^\|/.test(row)
IsPipeRow(row) == Len(row) > 0 /\ row[1] = "|"

W_network == <<"n", "e", "t", "w", "o", "r", "k">>
W_address == <<"a", "d", "d", "r", "e", "s", "s">>

\* first position >= pos that does not hold whitespace (Len + 1 if none)
SkipWs(line, pos) ==
  CHOOSE k \in pos..(Len(line) + 1) :
    /\ AllWs(line, pos, k - 1)
    /\ (k = Len(line) + 1 \/ line[k] \notin WS)

\* a literal of the pattern at pos, under /i
MatchLit(line, pos, word) ==
  /\ pos + Len(word) - 1 <= Len(line)
  /\ \A k \in 1..Len(word) : Lower(line[pos + k - 1]) = word[k]

\* /\|\s*Network\s*\|\s*Address\s*\|/i matching at position p
HeaderAt(line, p) ==
  /\ line[p] = "|"
  /\ LET a == SkipWs(line, p + 1)
     IN  /\ MatchLit(line, a, W_network)
         /\ LET b == SkipWs(line, a + Len(W_network))
            IN  /\ b <= Len(line)
                /\ line[b] = "|"
                /\ LET c == SkipWs(line, b + 1)
                   IN  /\ MatchLit(line, c, W_address)
                       /\ LET d == SkipWs(line, c + Len(W_address))
                          IN  d <= Len(line) /\ line[d] = "|"

\* the pattern anchored at the start of the line
IsTableHeader_m(line) == Len(line) > 0 /\ HeaderAt(line, 1)

\* /\|\s*Network\s*\|\s*Address\s*\|/i.test(lines[j])
IsTableHeader(line) == \E p \in 1..Len(line) : HeaderAt(line, p)

\* cell.match(/\(([^)]+)\)/) : m ? m[1] : cell
ExplorerUrl(cell) ==
  LET L == Len(cell)
      close(p) == {q \in (p + 1)..L : cell[q] = ")"}
      ps == {p \in 1..L : cell[p] = "(" /\ close(p) # {}
                          /\ SetMin(close(p)) > p + 1}
  IN  IF ps = {} THEN cell
      ELSE LET p == SetMin(ps)
           IN  SubSeq(cell, p + 1, SetMin(close(p)) - 1)

\* the index (idx === 2) of the Explorer column, 1-based
ExplorerIdx == 3

\* the least number of cells of a row that is kept (cells.length >= 5)
MinCells == 5

splitMarkdownRow(row) ==
  LET s1 == IF IsPipeRow(row) THEN Tail(row) ELSE row
      tr == {p \in 1..Len(s1) : s1[p] = "|" /\ AllWs(s1, p + 1, Len(s1))}
      s2 == IF tr = {} THEN s1 ELSE SubSeq(s1, 1, SetMin(tr) - 1)
      parts == SplitOn(s2, "|")
  IN  [k \in 1..Len(parts) |->
         IF k = ExplorerIdx THEN ExplorerUrl(Trim(parts[k]))
         ELSE Trim(parts[k])]

Uncategorized ==
  <<"U", "n", "c", "a", "t", "e", "g", "o", "r", "i", "z", "e", "d">>

RECURSIVE ScanUp(_, _)
ScanUp(lines, k) ==
  IF k < 1 THEN Uncategorized
  ELSE LET m == H2Re(lines[k])
       IN  IF m.ok THEN Trim(m.g) ELSE ScanUp(lines, k - 1)

\* the first ## heading of the document instead of the nearest one above
findNearestCategory_m(lines, index) ==
  LET S == {k \in 1..(index - 1) : H2Re(lines[k]).ok}
  IN  IF S = {} THEN Uncategorized ELSE Trim(H2Re(lines[SetMin(S)]).g)

findNearestCategory(lines, index) == ScanUp(lines, index - 1)

\* lines[k] of a JavaScript array: undefined outside its indices
Undefined == <<"undefined">>

At(lines, k) == IF k \in 1..Len(lines) THEN lines[k] ELSE Undefined

\* while (j < lines.length && /^\s*$/.test(lines[j])) j++
RECURSIVE SkipBlank(_, _)
SkipBlank(lines, j) ==
  IF j <= Len(lines) /\ IsBlank(lines[j]) THEN SkipBlank(lines, j + 1) ELSE j

\* the row object built from the first five cells
RowObj(cells) ==
  [network |-> cells[1], address |-> cells[2], explorer |-> cells[3],
   args |-> cells[4], salt |-> cells[5]]

\* the row loop that ends the table at the first short row
RECURSIVE RowLoop_m(_, _, _, _)
RowLoop_m(lines, j, rows, nets) ==
  IF j > Len(lines) \/ ~IsPipeRow(At(lines, j))
  THEN [j |-> j, rows |-> rows, networks |-> nets]
  ELSE LET cells == splitMarkdownRow(lines[j])
       IN  IF Len(cells) >= MinCells
           THEN LET obj == RowObj(cells)
                IN  RowLoop_m(lines, j + 1, Append(rows, obj),
                              IF obj.network # <<>>
                              THEN nets \cup {obj.network} ELSE nets)
           ELSE [j |-> j, rows |-> rows, networks |-> nets]

\* the inner while loop over the table rows, from cursor j
RECURSIVE RowLoop(_, _, _, _)
RowLoop(lines, j, rows, nets) ==
  IF j > Len(lines) \/ ~IsPipeRow(At(lines, j))
  THEN [j |-> j, rows |-> rows, networks |-> nets]
  ELSE LET cells == splitMarkdownRow(lines[j])
       IN  IF Len(cells) >= MinCells
           THEN LET obj == RowObj(cells)
                IN  RowLoop(lines, j + 1, Append(rows, obj),
                            IF obj.network # <<>>
                            THEN nets \cup {obj.network} ELSE nets)
           ELSE RowLoop(lines, j + 1, rows, nets)

\* the cursor that never moves: i = j left out before continue
AfterTable_m(i, j) == i

\* i = j after a table was consumed
AfterTable(i, j) == j

\* the scan resumes after the line that was inspected for a header
AfterHeading_m(i, j) == j + 1

\* i++ when the heading at i, with next non-blank line j, has no table
AfterHeading(i, j) == i + 1

\* the locals of parseMarkdown before the loop; heads is a history field:
\* the line of the heading each entry was emitted for
ParseInit ==
  [i |-> 1, entries |-> <<>>, networks |-> {}, categories |-> {},
   heads |-> <<>>]

\* one iteration of the outer while loop
LoopBody(lines, st) ==
  LET line == lines[st.i]
      h3   == H3Re(line)
  IN  IF ~h3.ok THEN [st EXCEPT !.i = st.i + 1]
      ELSE
        LET title    == Trim(h3.g)
            category == findNearestCategory(lines, st.i)
            cats     == st.categories \cup {category}
            j        == SkipBlank(lines, st.i + 1)
        IN  IF j <= Len(lines) /\ IsTableHeader(lines[j])
            THEN LET t == RowLoop(lines, j + 2, <<>>, st.networks)
                 IN  [i          |-> AfterTable(st.i, t.j),
                      entries    |-> Append(st.entries,
                                      [category |-> category,
                                       title |-> title, rows |-> t.rows]),
                      networks   |-> t.networks,
                      categories |-> cats,
                      heads      |-> Append(st.heads, st.i)]
            ELSE [st EXCEPT !.i = AfterHeading(st.i, j), !.categories = cats]

\* while (i < lines.length) { ... }; each iteration's result is bound as a
\* value before the next one starts
RECURSIVE RunLoop(_, _)
RunLoop(lines, st) ==
  IF st.i <= Len(lines)
  THEN CHOOSE r \in {RunLoop(lines, nxt) : nxt \in {LoopBody(lines, st)}} :
         TRUE
  ELSE st

parseMarkdown(text) ==
  CHOOSE res \in {[entries |-> r.entries, networks |-> r.networks,
                   categories |-> r.categories] :
                    r \in {RunLoop(ls, ParseInit) :
                             ls \in {SplitLines(text)}}} : TRUE

\* ------------------------------------------------------------------------
\* Input documents
\* ------------------------------------------------------------------------
L_H3      == <<"#", "#", "#", " ", "A">>
L_H3b     == <<"#", "#", "#", " ", " ", "B", " ">>
L_H3Sp    == <<"#", "#", "#", " ", " ">>
L_H2      == <<"#", "#", " ", "T">>
L_H2b     == <<"#", "#", "\t", "V", " ">>
L_Blank   == <<>>
L_Space   == <<" ">>
L_Para    == <<"p">>
L_Hdr     == <<"|">> \o <<"N", "e", "t", "w", "o", "r", "k">> \o <<"|">>
               \o <<"A", "d", "d", "r", "e", "s", "s">> \o <<"|">>
L_HdrCase == <<"|", " ">> \o <<"n", "e", "t", "w", "o", "r", "k">>
               \o <<" ", "|", " ">>
               \o <<"A", "D", "D", "R", "E", "S", "S">> \o <<" ", "|">>
L_HdrSwap == <<"|">> \o <<"A", "d", "d", "r", "e", "s", "s">> \o <<"|">>
               \o <<"N", "e", "t", "w", "o", "r", "k">> \o <<"|">>
L_HdrLate == <<"|", "S", "|">> \o <<"N", "e", "t", "w", "o", "r", "k">>
               \o <<"|">> \o <<"A", "d", "d", "r", "e", "s", "s">> \o <<"|">>
L_H3Hdr   == <<"#", "#", "#", " ">> \o L_Hdr
L_H2Hdr   == <<"#", "#", " ">> \o L_Hdr
L_Row5    == <<"|", "m", "|", "1", "|", "[", "x", "]", "(", "u", ")", "|",
               "(", ")", "|", "0", "|">>
L_Row5b   == <<"|", " ", "t", " ", "|", "2", "|", "n", "|", "(", "1", ")",
               "|", "s">>
L_Row4    == <<"|", "m", "|", "1", "|", "x", "|", "0", "|">>
L_RowPar  == <<"|", "t", "|", "2", "|", "s", "e", "e", " ", "(", "n", ")",
               "|", "a", "|", "s", "|">>
L_RowNoNet == <<"|", "|", "1", "|", "u", "|", "a", "|", "s", "|">>

LF   == <<"\n">>
CRLF == <<"\r", "\n">>

\* the text of the lines f, with terminator t between them
RECURSIVE JoinLines(_, _)
JoinLines(f, t) ==
  IF Len(f) = 0 THEN <<>>
  ELSE IF Len(f) = 1 THEN f[1]
  ELSE f[1] \o t \o JoinLines(Tail(f), t)

\* every text made of the lines pre and then 1..MaxLines lines of V, with
\* terminator in T
Texts(pre, V, T) ==
  UNION {{JoinLines(pre \o f, t) : f \in [1..k -> V], t \in T} :
           k \in 1..MaxLines}

L_Sep == <<"|", "-", "|">>

\* the documents the page is given
DocTwoNets == JoinLines(<<L_H2, L_H3, L_Hdr, L_Sep, L_Row5, L_RowPar>>, LF)
DocOneNet  == JoinLines(<<L_H3b, L_Blank, L_HdrCase, L_Sep, L_RowPar>>, CRLF)
DocNoTable == JoinLines(<<L_H2b, L_H3, L_Para>>, LF)
PageDocs   == {DocTwoNets, DocOneNet, DocNoTable}

\* the texts typed into the search box
SearchInputs == {<<>>, <<" ", "M">>}

\* ------------------------------------------------------------------------
\* Page helpers
\* ------------------------------------------------------------------------
\* UTF-16 code units of the characters that occur in facet values
CharCode(c) ==
  CASE c = "T" -> 84 [] c = "U" -> 85 [] c = "V" -> 86 [] c = "m" -> 109
    [] c = "t" -> 116 [] OTHER -> 0

\* a < b in the default Array.prototype.sort order
RECURSIVE StrLess(_, _)
StrLess(a, b) ==
  IF Len(b) = 0 THEN FALSE
  ELSE IF Len(a) = 0 THEN TRUE
  ELSE IF CharCode(a[1]) # CharCode(b[1]) THEN CharCode(a[1]) < CharCode(b[1])
  ELSE StrLess(Tail(a), Tail(b))

\* Array.from(set).sort()
RECURSIVE SortedSeq(_)
SortedSeq(S) ==
  IF S = {} THEN <<>>
  ELSE LET lo == CHOOSE x \in S : \A y \in S \ {x} : StrLess(x, y)
       IN  <<lo>> \o SortedSeq(S \ {lo})

Includes(values, v) == \E k \in 1..Len(values) : values[k] = v

\* fillSelect: the rebuilt element; the first option is selected unless the
\* previous value is among the new ones
fillSelect(sel, values) ==
  LET current == sel.value
  IN  [options |-> values,
       value   |-> IF Includes(values, current) THEN current ELSE values[1]]

LowerStr(s) == [k \in 1..Len(s) |-> Lower(s[k])]

\* String.prototype.includes
HasSub(hay, q) ==
  \E p \in 0..(Len(hay) - Len(q)) : SubSeq(hay, p + 1, p + Len(q)) = q

Hay(e, r) ==
  LowerStr(e.title \o <<" ">> \o e.category \o <<" ">> \o r.network
           \o <<" ">> \o r.address \o <<" ">> \o r.explorer \o <<" ">>
           \o r.args \o <<" ">> \o r.salt)

\* the sections render() shows
Filtered(st) ==
  LET q == LowerStr(st.search)
      f == st.filters
      byCat == SelectSeq(st.entries,
                 LAMBDA e : f.category = <<>> \/ e.category = f.category)
      keep(e, r) == /\ (f.network = <<>> \/ r.network = f.network)
                    /\ (q = <<>> \/ HasSub(Hay(e, r), q))
      mapped == [k \in 1..Len(byCat) |->
                   [byCat[k] EXCEPT !.rows =
                      SelectSeq(byCat[k].rows, LAMBDA r : keep(byCat[k], r))]]
  IN  SelectSeq(mapped, LAMBDA e : Len(e.rows) > 0)

\* ------------------------------------------------------------------------
\* State
\* ------------------------------------------------------------------------
VARIABLES
  md,          \* parseMarkdown: its argument
  lines,       \* parseMarkdown: lines
  pc,          \* parseMarkdown: "start", "scan", "done" or "error"
  i,           \* parseMarkdown: the line cursor
  entries,     \* parseMarkdown: entries
  networks,    \* parseMarkdown: networks
  categories,  \* parseMarkdown: categories
  heads,       \* history: the heading line of each entry
  visited,     \* history: the cursor values at which the loop body ran
  state,       \* the page's state object
  networkFilter,   \* els.networkFilter: [value, options]
  categoryFilter,  \* els.categoryFilter: [value, options]
  results,     \* els.results: [class, list]
  status,      \* els.status.textContent
  fetching,    \* init(): "pending", "loaded" or "failed"
  reads        \* the number of unsettled file.text() promises, per text

pvars == <<md, lines, pc, i, entries, networks, categories, heads, visited>>
uvars == <<state, networkFilter, categoryFilter, results, status, fetching,
           reads>>
vars == <<md, lines, pc, i, entries, networks, categories, heads, visited,
          state, networkFilter, categoryFilter, results, status, fetching,
          reads>>

\* the page as the script leaves it when init() awaits the fetch
UInit ==
  /\ state = [rawMarkdown |-> <<>>, entries |-> <<>>, networks |-> {},
              categories |-> {}, search |-> <<>>,
              filters |-> [network |-> <<>>, category |-> <<>>],
              view |-> "cards"]
  /\ networkFilter = [value |-> <<>>, options |-> << <<>> >>]
  /\ categoryFilter = [value |-> <<>>, options |-> << <<>> >>]
  /\ results = [class |-> "results", list |-> <<>>]
  /\ status = [kind |-> "initial", n |-> 0]
  /\ fetching = "pending"
  /\ reads = [d \in PageDocs |-> 0]

PIdle ==
  /\ md = <<>>
  /\ lines = <<>>
  /\ pc = "idle"
  /\ i = 1
  /\ entries = <<>>
  /\ networks = {}
  /\ categories = {}
  /\ heads = <<>>
  /\ visited = <<>>

PInitOn(pre, V, T) ==
  /\ md \in Texts(pre, V, T)
  /\ lines = <<>>
  /\ pc = "start"
  /\ i = 1
  /\ entries = <<>>
  /\ networks = {}
  /\ categories = {}
  /\ heads = <<>>
  /\ visited = <<>>
  /\ UInit

\* ------------------------------------------------------------------------
\* parseMarkdown, one loop iteration at a time
\* ------------------------------------------------------------------------
\* const lines = md.split(/\r?\n/); ...; let i = 0
Split ==
  /\ pc = "start"
  /\ lines' = SplitLines(md)
  /\ pc' = "scan"
  /\ UNCHANGED <<md, i, entries, networks, categories, heads, visited>>
  /\ UNCHANGED uvars

\* one iteration of while (i < lines.length)
Step ==
  /\ pc = "scan"
  /\ i <= Len(lines)
  /\ IF At(lines, i) = Undefined
     THEN /\ pc' = "error"
          /\ UNCHANGED <<i, entries, networks, categories, heads>>
     ELSE LET st == LoopBody(lines, [i |-> i, entries |-> entries,
                                     networks |-> networks,
                                     categories |-> categories,
                                     heads |-> heads])
          IN  /\ i' = st.i
              /\ entries' = st.entries
              /\ networks' = st.networks
              /\ categories' = st.categories
              /\ heads' = st.heads
              /\ pc' = "scan"
  /\ visited' = Append(visited, i)
  /\ UNCHANGED <<md, lines>>
  /\ UNCHANGED uvars

\* return { entries, networks, categories }
Return ==
  /\ pc = "scan"
  /\ i > Len(lines)
  /\ pc' = "done"
  /\ UNCHANGED <<md, lines, i, entries, networks, categories, heads, visited>>
  /\ UNCHANGED uvars

PNext == Split \/ Step \/ Return

\* ------------------------------------------------------------------------
\* The page
\* ------------------------------------------------------------------------
\* render(): the new els.results and status text
Render(st) ==
  LET list == Filtered(st)
  IN  [results |-> [class |-> IF st.view = "table" THEN "results table"
                              ELSE "results cards",
                    list |-> list],
       status  |-> [kind |-> "shown", n |-> Len(list)]]

\* the reparse that adds to the stored facet sets instead of replacing them
parseAndRender_m(text) ==
  \E r \in {parseMarkdown(text)} :
    \E st \in {[state EXCEPT !.rawMarkdown = text, !.entries = r.entries,
                              !.networks = state.networks \cup r.networks,
                              !.categories = state.categories \cup r.categories]} :
      \E out \in {Render(st)} :
        /\ state' = st
        /\ networkFilter' =
             fillSelect(networkFilter, << <<>> >> \o SortedSeq(st.networks))
        /\ categoryFilter' =
             fillSelect(categoryFilter,
                        << <<>> >> \o SortedSeq(st.categories))
        /\ results' = out.results
        /\ status' = out.status

\* parseAndRender() after state.rawMarkdown = text
parseAndRender(text) ==
  \E r \in {parseMarkdown(text)} :
    \E st \in {[state EXCEPT !.rawMarkdown = text, !.entries = r.entries,
                              !.networks = r.networks,
                              !.categories = r.categories]} :
      \E out \in {Render(st)} :
        /\ state' = st
        /\ networkFilter' =
             fillSelect(networkFilter, << <<>> >> \o SortedSeq(st.networks))
        /\ categoryFilter' =
             fillSelect(categoryFilter,
                        << <<>> >> \o SortedSeq(st.categories))
        /\ results' = out.results
        /\ status' = out.status

\* init(): the fetch succeeded and res.text() resolved
FetchLoaded ==
  /\ fetching = "pending"
  /\ \E text \in PageDocs : parseAndRender(text)
  /\ fetching' = "loaded"
  /\ UNCHANGED reads
  /\ UNCHANGED pvars

\* init(): fetch rejected, !res.ok or res.text() rejected
FetchFailed ==
  /\ fetching = "pending"
  /\ fetching' = "failed"
  /\ status' = [kind |-> "could-not-auto-load", n |-> 0]
  /\ UNCHANGED <<state, networkFilter, categoryFilter, results, reads>>
  /\ UNCHANGED pvars

\* els.search 'input'
SearchInput ==
  /\ \E v \in SearchInputs :
       LET st == [state EXCEPT !.search = Trim(v)]
           out == Render(st)
       IN  /\ state' = st
           /\ results' = out.results
           /\ status' = out.status
  /\ UNCHANGED <<networkFilter, categoryFilter, fetching, reads>>
  /\ UNCHANGED pvars

\* els.networkFilter 'change': the user picked one of the options
NetworkChange ==
  /\ \E k \in 1..Len(networkFilter.options) :
       LET v  == networkFilter.options[k]
           st == [state EXCEPT !.filters.network = v]
           out == Render(st)
       IN  /\ networkFilter' = [networkFilter EXCEPT !.value = v]
           /\ state' = st
           /\ results' = out.results
           /\ status' = out.status
  /\ UNCHANGED <<categoryFilter, fetching, reads>>
  /\ UNCHANGED pvars

\* els.categoryFilter 'change': the user picked one of the options
CategoryChange ==
  /\ \E k \in 1..Len(categoryFilter.options) :
       LET v  == categoryFilter.options[k]
           st == [state EXCEPT !.filters.category = v]
           out == Render(st)
       IN  /\ categoryFilter' = [categoryFilter EXCEPT !.value = v]
           /\ state' = st
           /\ results' = out.results
           /\ status' = out.status
  /\ UNCHANGED <<networkFilter, fetching, reads>>
  /\ UNCHANGED pvars

\* els.viewMode 'change'
ViewChange ==
  /\ \E v \in {"cards", "table"} :
       LET st == [state EXCEPT !.view = v]
           out == Render(st)
       IN  /\ state' = st
           /\ results' = out.results
           /\ status' = out.status
  /\ UNCHANGED <<networkFilter, categoryFilter, fetching, reads>>
  /\ UNCHANGED pvars

Pending == {d \in PageDocs : reads[d] > 0}

RECURSIVE Total(_, _)
Total(f, S) ==
  IF S = {} THEN 0
  ELSE LET d == CHOOSE x \in S : TRUE IN f[d] + Total(f, S \ {d})

\* els.fileInput 'change' with a file: the handler awaits file.text()
FileChosen ==
  /\ Total(reads, PageDocs) < MaxPending
  /\ \E text \in PageDocs : reads' = [reads EXCEPT ![text] = @ + 1]
  /\ UNCHANGED <<state, networkFilter, categoryFilter, results, status,
                 fetching>>
  /\ UNCHANGED pvars

\* a file.text() promise resolved: state.rawMarkdown = ...; parseAndRender()
FileRead ==
  /\ \E text \in Pending :
       /\ parseAndRender(text)
       /\ reads' = [reads EXCEPT ![text] = @ - 1]
  /\ UNCHANGED fetching
  /\ UNCHANGED pvars

\* a file.text() promise rejected: the handler ends there
FileReadFailed ==
  /\ \E text \in Pending : reads' = [reads EXCEPT ![text] = @ - 1]
  /\ UNCHANGED <<state, networkFilter, categoryFilter, results, status,
                 fetching>>
  /\ UNCHANGED pvars

UNext ==
  \/ FetchLoaded \/ FetchFailed \/ SearchInput \/ NetworkChange
  \/ CategoryChange \/ ViewChange \/ FileChosen \/ FileRead \/ FileReadFailed

PageInit == PIdle /\ UInit
PageSpec == PageInit /\ [][UNext]_vars

\* the parser on documents of headings, tables and paragraphs
Init ==
  PInitOn(<<>>, {L_H2, L_H3, L_Hdr, L_Row5, L_RowPar, L_RowNoNet, L_Para},
          {LF})
Next == PNext
Spec == Init /\ [][Next]_vars

\* headings with and without text
TitleInit ==
  PInitOn(<<>>, {L_H3, L_H3b, L_H3Sp, L_Blank, L_Hdr, L_Row5}, {LF})
TitleSpec == TitleInit /\ [][Next]_vars

\* the same, with both line terminators
LoopInit ==
  PInitOn(<<>>, {L_H2, L_H3, L_Blank, L_Hdr, L_Row5, L_Row4}, {LF, CRLF})
LoopSpec == LoopInit /\ [][Next]_vars

\* the header test: headings followed by the variants of the header row
HeaderInit ==
  PInitOn(<<>>, {L_H3, L_Space, L_Hdr, L_HdrCase, L_HdrSwap, L_HdrLate,
                 L_Row5}, {LF})
HeaderSpec == HeaderInit /\ [][Next]_vars

\* category resolution: second-level headings at every place of a section
CategoryInit ==
  PInitOn(<<L_H3>>, {L_H2, L_H2b, L_H2Hdr, L_H3, L_Hdr, L_Row5}, {LF})
CategorySpec == CategoryInit /\ [][Next]_vars

\* table rows: a heading and a header, then rows of four and five cells
RowsInit ==
  PInitOn(<<L_H3, L_Hdr>>,
          {L_Sep, L_Row5, L_Row5b, L_Row4, L_Para, L_H3, L_Hdr}, {LF})
RowsSpec == RowsInit /\ [][Next]_vars

\* headings without a table
ResumeInit ==
  PInitOn(<<L_H3>>, {L_H3, L_H3Hdr, L_Hdr, L_Para, L_Blank}, {LF})
ResumeSpec == ResumeInit /\ [][Next]_vars

\* ------------------------------------------------------------------------
\* Vocabulary of the properties
\* ------------------------------------------------------------------------
IsH3(line) == H3Re(line).ok
IsH2(line) == H2Re(line).ok

\* the first line after h that is not blank (Len + 1 if there is none)
NextNonBlank(ls, h) ==
  LET S == {j \in (h + 1)..Len(ls) : ~IsBlank(ls[j])}
  IN  IF S = {} THEN Len(ls) + 1 ELSE SetMin(S)

\* the heading at line h is followed by a recognized table
HasTable(ls, h) ==
  NextNonBlank(ls, h) <= Len(ls) /\ IsTableHeader(ls[NextNonBlank(ls, h)])

\* an entry was emitted for the heading at line h
EntryAt(h) == \E k \in 1..Len(heads) : heads[k] = h

\* the loop body ran with the cursor at line h
Visited(h) == \E p \in 1..Len(visited) : visited[p] = h

\* the cursor value the iteration at visited[p] left
CursorAfter(p) == IF p < Len(visited) THEN visited[p + 1] ELSE i

\* the first line from s on that does not begin with a pipe
TableEnd(ls, s) ==
  LET S == {j \in s..Len(ls) : ~IsPipeRow(ls[j])}
  IN  IF S # {} THEN SetMin(S)
      ELSE IF s > Len(ls) THEN s ELSE Len(ls) + 1

\* the lines of the table under the heading at h that split into at least
\* five cells, in order
KeptLines(ls, h) ==
  LET s == NextNonBlank(ls, h) + 2
      e == TableEnd(ls, s)
      all == [k \in 1..(e - s) |-> s + k - 1]
  IN  SelectSeq(all, LAMBDA j : Len(splitMarkdownRow(ls[j])) >= 5)

ExpectedRows(ls, h) ==
  LET kept == KeptLines(ls, h)
  IN  [r \in 1..Len(kept) |-> RowObj(splitMarkdownRow(ls[kept[r]]))]

\* the trimmed raw cells of a table line
RawCells(line) ==
  LET a == IF Len(line) > 0 /\ line[1] = "|" THEN 2 ELSE 1
      last == {k \in 1..Len(line) : line[k] \notin WS}
      b == IF last # {} /\ SetMax(last) >= a /\ line[SetMax(last)] = "|"
           THEN SetMax(last) - 1 ELSE Len(line)
      parts == SplitOn(SubSeq(line, a, b), "|")
  IN  [k \in 1..Len(parts) |-> Trim(parts[k])]

\* the places b of "](" of a markdown link [text](url) in a cell
LinkAt(cell) ==
  {b \in 2..(Len(cell) - 2) :
     /\ cell[b] = "]" /\ cell[b + 1] = "("
     /\ \E a \in 1..(b - 1) : cell[a] = "["
     /\ \E c \in (b + 2)..Len(cell) : cell[c] = ")"}

LinkUrl(cell) ==
  LET b == SetMin(LinkAt(cell))
      c == SetMin({x \in (b + 2)..Len(cell) : cell[x] = ")"})
  IN  SubSeq(cell, b + 2, c - 1)

Cells(line) == SplitOn(line, "|")
Label(cell) == LowerStr(Trim(cell))

\* the line has a Network cell and an Address cell, anywhere, in any order
HasBothLabels(line) ==
  /\ \E k \in 1..Len(Cells(line)) : Label(Cells(line)[k]) = W_network
  /\ \E k \in 1..Len(Cells(line)) : Label(Cells(line)[k]) = W_address

\* the line has a pipe-delimited Network cell directly followed by a
\* pipe-delimited Address cell
HasAdjacentLabels(line) ==
  \E k \in 2..(Len(Cells(line)) - 2) :
    /\ Label(Cells(line)[k]) = W_network
    /\ Label(Cells(line)[k + 1]) = W_address

\* the category a forward scan holds when it arrives at line h
RECURSIVE ForwardCategory(_, _, _, _)
ForwardCategory(ls, k, h, cur) ==
  IF k >= h THEN cur
  ELSE ForwardCategory(ls, k + 1, h,
         IF IsH2(ls[k]) THEN Trim(H2Re(ls[k]).g) ELSE cur)

LastH2Above(ls, h) ==
  LET S == {k \in 1..(h - 1) : IsH2(ls[k])}
  IN  IF S = {} THEN Uncategorized ELSE Trim(H2Re(ls[SetMax(S)]).g)

\* line j was consumed as the header or the separator of an entry's table
ConsumedByTable(ls, j) ==
  \E k \in 1..Len(heads) :
    j \in {NextNonBlank(ls, heads[k]), NextNonBlank(ls, heads[k]) + 1}

\* ------------------------------------------------------------------------
\* Properties
\* ------------------------------------------------------------------------
\* C1: the facet sets parseMarkdown returns are exactly the distinct
\* categories of the returned entries and the distinct non-empty networks
\* of their rows.
C1_FacetsAreThoseOfEntries ==
  pc = "done" =>
    /\ categories = {entries[k].category : k \in 1..Len(entries)}
    /\ networks =
         UNION {{entries[k].rows[r].network : r \in 1..Len(entries[k].rows)} :
                  k \in 1..Len(entries)} \ {<<>>}

\* C2 as stated: a heading's next non-blank line is taken as the table
\* header whenever it has a Network cell and an Address cell, wherever they
\* sit and in whichever order.
C2_AnyOrderAccepted ==
  \A p \in 1..Len(visited) :
    (IsH3(lines[visited[p]]) /\ NextNonBlank(lines, visited[p]) <= Len(lines)
       /\ HasBothLabels(lines[NextNonBlank(lines, visited[p])]))
      => EntryAt(visited[p])

\* C2 amended: a heading's next non-blank line is taken as the table header
\* exactly when it has a pipe-delimited Network cell directly followed by a
\* pipe-delimited Address cell (any case, anywhere in the line); the rows
\* below are then mapped by position.
C2_AdjacentLabelsAccepted ==
  \A p \in 1..Len(visited) :
    LET h == visited[p]
        j == NextNonBlank(lines, h)
    IN  IsH3(lines[h]) =>
          /\ EntryAt(h) <=> (j <= Len(lines) /\ HasAdjacentLabels(lines[j]))
          /\ \A k \in 1..Len(heads) :
               heads[k] = h =>
                 /\ Len(entries[k].rows) = Len(KeptLines(lines, h))
                 /\ \A r \in 1..Len(entries[k].rows) :
                      LET c == RawCells(lines[KeptLines(lines, h)[r]])
                      IN  /\ entries[k].rows[r].network = c[1]
                          /\ entries[k].rows[r].address = c[2]
                          /\ entries[k].rows[r].args = c[4]
                          /\ entries[k].rows[r].salt = c[5]

\* a table whose header has the Network and Address cells after another
\* column was parsed, and its row mapped by position
C2_Witness ==
  /\ pc = "done"
  /\ \E k \in 1..Len(heads) :
       /\ lines[NextNonBlank(lines, heads[k])] = L_HdrLate
       /\ Len(entries[k].rows) > 0
       /\ entries[k].rows[1].network = <<"m">>

\* C3: every entry has a non-empty title, and a line of ### and whitespace
\* only never produces an entry.
C3_TitlesNonEmpty ==
  \A k \in 1..Len(entries) :
    /\ entries[k].title # <<>>
    /\ ~AllWs(lines[heads[k]], 4, Len(lines[heads[k]]))

\* C4: an entry's category is the trimmed text of the last ## line strictly
\* above its heading, counting every line of the document, or the sentinel;
\* it is the value a forward scan with a running category holds there.
C4_CategoryIsLastH2Above ==
  \A k \in 1..Len(entries) :
    /\ entries[k].category = LastH2Above(lines, heads[k])
    /\ entries[k].category = ForwardCategory(lines, 1, heads[k], Uncategorized)

\* an entry took its category from a ## line that an earlier table consumed
\* as its header or separator
C4_Witness ==
  /\ pc = "done"
  /\ \E k \in 1..Len(entries) :
       \E j \in 1..(heads[k] - 1) :
         /\ IsH2(lines[j])
         /\ ConsumedByTable(lines, j)
         /\ \A m \in (j + 1)..(heads[k] - 1) : ~IsH2(lines[m])
         /\ entries[k].category = Trim(H2Re(lines[j]).g)

\* C5: an entry's rows are the in-order subsequence of the pipe-prefixed
\* lines after the separator that split into at least five cells; shorter
\* rows are passed over by the cursor, and the entry is emitted even with
\* no rows.
C5_RowsAreLongRowsInOrder ==
  /\ \A k \in 1..Len(entries) :
       entries[k].rows = ExpectedRows(lines, heads[k])
  /\ \A p \in 1..Len(visited) :
       (IsH3(lines[visited[p]]) /\ HasTable(lines, visited[p])) =>
         /\ EntryAt(visited[p])
         /\ CursorAfter(p) =
              TableEnd(lines, NextNonBlank(lines, visited[p]) + 2)

\* an entry kept the two five-cell rows around a four-cell row of its
\* table, in order, and the cursor went past all three
C5_Witness ==
  /\ pc = "done"
  /\ \E k \in 1..Len(entries) :
       LET s == NextNonBlank(lines, heads[k]) + 2
       IN  /\ s + 2 <= Len(lines)
           /\ lines[s] = L_Row5
           /\ lines[s + 1] = L_Row4
           /\ lines[s + 2] = L_Row5b
           /\ Len(entries[k].rows) = 2
           /\ entries[k].rows[2].network = <<"t">>
           /\ i > s + 2

\* C6: a row's explorer is the url of the markdown link [text](url) in the
\* third cell when there is one, and the trimmed raw cell otherwise; the
\* other four fields are the trimmed raw cells.
C6_ExplorerIsLinkOrRaw ==
  \A k \in 1..Len(entries) :
    /\ Len(entries[k].rows) = Len(KeptLines(lines, heads[k]))
    /\ \A r \in 1..Len(entries[k].rows) :
         LET c == RawCells(lines[KeptLines(lines, heads[k])[r]])
             row == entries[k].rows[r]
         IN  /\ row.network = c[1]
             /\ row.address = c[2]
             /\ row.args = c[4]
             /\ row.salt = c[5]
             /\ row.explorer =
                  IF LinkAt(c[3]) # {} THEN LinkUrl(c[3]) ELSE c[3]

\* C7 as stated: a heading whose next non-blank line is no table header
\* gives no entry, the scan goes on at the next line, and every later
\* heading followed by a recognized table gives its entry.
C7_LaterHeadingsAllEmitted ==
  pc = "done" =>
    \A p \in 1..Len(visited) :
      LET h == visited[p]
      IN  (IsH3(lines[h]) /\ ~HasTable(lines, h)) =>
            /\ ~EntryAt(h)
            /\ CursorAfter(p) = h + 1
            /\ \A g \in (h + 1)..Len(lines) :
                 (IsH3(lines[g]) /\ HasTable(lines, g)) => EntryAt(g)

\* C7 amended: ... every later heading followed by a recognized table gives
\* its entry, unless its line was consumed as the header or the unvalidated
\* separator of the table of a heading between the two.
C7_LaterHeadingsEmittedUnlessConsumed ==
  pc = "done" =>
    \A p \in 1..Len(visited) :
      LET h == visited[p]
      IN  (IsH3(lines[h]) /\ ~HasTable(lines, h)) =>
            /\ ~EntryAt(h)
            /\ CursorAfter(p) = h + 1
            /\ \A g \in (h + 1)..Len(lines) :
                 (IsH3(lines[g]) /\ HasTable(lines, g)
                    /\ ~ConsumedByTable(lines, g)) => EntryAt(g)

\* a heading without a table, whose next non-blank line is a heading that
\* gave its entry
C7_Witness ==
  /\ pc = "done"
  /\ \E h \in 1..Len(lines) :
       /\ Visited(h) /\ IsH3(lines[h]) /\ ~HasTable(lines, h)
       /\ NextNonBlank(lines, h) <= Len(lines)
       /\ NextNonBlank(lines, h) > h + 1
       /\ IsH3(lines[NextNonBlank(lines, h)])
       /\ EntryAt(NextNonBlank(lines, h))

\* C8: the cursor strictly increases on every iteration and never passes
\* the separator index of a header on the last line, and no step fails, so
\* that the loop ends after at most Len(lines) iterations.
C8_TerminatesWithoutError ==
  /\ pc # "error"
  /\ \A p \in 1..Len(visited) : visited[p] < CursorAfter(p)
  /\ Len(visited) <= Len(lines)
  /\ pc \in {"scan", "done"} => i <= Len(lines) + 2

\* parseMarkdown returned on a document whose last line is a table header:
\* the cursor went past the separator index
C8_Witness ==
  /\ pc = "done"
  /\ i = Len(lines) + 2
  /\ Len(entries) > 0

\* C9: between handlers, the stored entries and facet sets are those of
\* parseMarkdown(state.rawMarkdown).
C9_ModelIsParseOfSource ==
  [entries |-> state.entries, networks |-> state.networks,
   categories |-> state.categories] = parseMarkdown(state.rawMarkdown)

\* a document without the earlier selected network m was loaded after one
\* that had it, while another read is still pending
C9_Witness ==
  /\ state.rawMarkdown = DocOneNet
  /\ state.filters.network = <<"m">>
  /\ fetching = "loaded"
  /\ reads[DocNoTable] > 0

\* C10: the filters render() applies are the values the dropdowns show.
C10_FiltersAreDropdownValues ==
  /\ state.filters.network = networkFilter.value
  /\ state.filters.category = categoryFilter.value

====
